---- MODULE Spec2Model ----
(***************************************************************************)
(* Model of the Telegram bot of src/main.go (lines 1..1034): the update    *)
(* handler, processUpdate, processCallbackQuery, processImage, the command *)
(* registry allCmds and the file reference store fileIDs.                  *)
(*                                                                         *)
(* Strings are sequences of atoms.  An atom is a run of characters that no *)
(* string operation of the program cuts: a file handle is a sequence of    *)
(* one-character atoms (fileID[:32] cuts it), a callback payload is        *)
(* <<token, "/">> followed by the key (strings.Split cuts at "/"), and a   *)
(* message text keeps the word "image" as an atom of its own               *)
(* (strings.Contains looks for it).  fmt.Sprintf is concatenation.         *)
(*                                                                         *)
(* The transport runs the update handler of every update as a goroutine of *)
(* its own, and processImage is started with "go": handler invocations and *)
(* processing units interleave.  Steps of one goroutine that touch nothing *)
(* shared are folded into the step before them.  A panic or a fatal error  *)
(* of the Go runtime in any goroutine ends the process (crashed).          *)
(***************************************************************************)
EXTENDS Integers, Sequences, FiniteSets, TLC

\* numbers of messages and of callback queries the transport delivers in one
\* run of the process
MaxMessages == 2
MaxCallbacks == 1

\* the same for the runs in which buttons are tapped twice
MaxTapMessages == 1
MaxTaps == 2

\* the largest numbers of faces or objects and of poses in a result, and the
\* largest index a colour is asked for
MaxFaces == 3
MaxPoses == 2
MaxIndex == 17

(***************************************************************************)
(* Constants of the program                                                *)
(***************************************************************************)
DetectFaces == "Detect Faces"
DetectProducts == "Detect Products"
DetectNSFW == "Detect NSFW "
Tag == "Tag This Image"
AnalyzePoses == "Analyze Poses"
ExtractTexts == "Extract Texts"
MaskFaces == "Mask Faces"
None == ""

\* variant: Mask Faces is given the token of Detect Faces
allCmdsCollide ==
    [c \in {DetectFaces, DetectProducts, DetectNSFW, Tag, AnalyzePoses,
            ExtractTexts, MaskFaces} |->
        CASE c \in {DetectFaces, MaskFaces} -> <<"detect_faces">>
          [] c = DetectProducts -> <<"detect_products">>
          [] c = DetectNSFW -> <<"detect_nsfw">>
          [] c = Tag -> <<"tag">>
          [] c = AnalyzePoses -> <<"analyze_poses">>
          [] c = ExtractTexts -> <<"extract_texts">>]

\* command -> its token in callback payloads
allCmds ==
    [c \in {DetectFaces, DetectProducts, DetectNSFW, Tag, AnalyzePoses,
            ExtractTexts, MaskFaces} |->
        CASE c = DetectFaces -> <<"detect_faces">>
          [] c = DetectProducts -> <<"detect_products">>
          [] c = DetectNSFW -> <<"detect_nsfw">>
          [] c = Tag -> <<"tag">>
          [] c = AnalyzePoses -> <<"analyze_poses">>
          [] c = ExtractTexts -> <<"extract_texts">>
          [] c = MaskFaces -> <<"mask_faces">>]

\* variant: result starts as Detect Faces instead of None
visionCommandForCommandDefault(cmd) ==
    IF \E k \in DOMAIN allCmds : allCmds[k] = cmd
    THEN CHOOSE k \in DOMAIN allCmds : allCmds[k] = cmd
    ELSE DetectFaces

\* the loop stops at the first command whose token equals cmd
visionCommandForCommand(cmd) ==
    IF \E k \in DOMAIN allCmds : allCmds[k] = cmd
    THEN CHOOSE k \in DOMAIN allCmds : allCmds[k] = cmd
    ELSE None

messageActionImage == <<"Choose action for this ", "image", ":">>
messageUnprocessable == <<"Unprocessable message.">>
messageFailedToGetFile == <<"Failed to get file from the server.">>
messageCanceled == <<"Canceled.">>
messageHelp == <<"Send any ", "image", " to this bot, ...">>
commandCancel == <<"cancel">>

\* length of a shortened file id
ShortLen == 32

(***************************************************************************)
(* String operations                                                       *)
(***************************************************************************)
\* strings.Contains(text, "image")
Contains(text, atom) == \E i \in 1..Len(text) : text[i] = atom

\* strings.Split(s, sep): the pieces between the separators, n+1 pieces for
\* n separators
RECURSIVE Split(_, _)
Split(s, sep) ==
    IF \A i \in 1..Len(s) : s[i] # sep
    THEN <<s>>
    ELSE LET i == CHOOSE n \in 1..Len(s) :
                      s[n] = sep /\ \A j \in 1..(n - 1) : s[j] # sep
         IN  <<SubSeq(s, 1, i - 1)>> \o Split(SubSeq(s, i + 1, Len(s)), sep)

\* fileID[:32] panics when the handle has fewer than 32 characters
CanShorten(fileID) == Len(fileID) >= ShortLen

\* variant: the handle is used as the key in full
ShortenNot(fileID) == fileID

\* shortenedFileID := fileID[:32]
Shorten(fileID) == SubSeq(fileID, 1, ShortLen)

\* len(s) of a string given as a sequence of pieces: its number of bytes
RECURSIVE ByteLen(_)
ByteLen(s) == IF s = <<>> THEN 0 ELSE Len(Head(s)) + ByteLen(Tail(s))

\* variant: the format "%s%s"
CallbackDataNoDelimiter(cmd, shortenedFileID) == cmd \o shortenedFileID

\* fmt.Sprintf("%s/%s", cmd, shortenedFileID)
CallbackData(cmd, shortenedFileID) == cmd \o <<"/">> \o shortenedFileID

\* the callback payloads of the buttons genImageInlineKeyboards returns
Keyboard(fileID) ==
    {CallbackData(allCmds[title], Shorten(fileID)) : title \in DOMAIN allCmds}
        \cup {commandCancel}

\* variant: compares with the title of the cancel button
IsCancelTitle(data) == data = <<"Cancel">>

\* data == commandCancel
IsCancel(data) == data = commandCancel

(***************************************************************************)
(* The file reference store, a map without a lock                          *)
(***************************************************************************)
\* variant: the map is made anew at every write
StorePutAlone(store, key, fileID) == [k \in {key} |-> fileID]

\* fileIDs[shortenedFileID] = fileID
StorePut(store, key, fileID) ==
    [k \in DOMAIN store \cup {key} |-> IF k = key THEN fileID ELSE store[k]]

\* variant: the one-value form fileID := fileIDs[shortenedFileID]
StoreGetIgnoringExists(store, key) ==
    IF key \in DOMAIN store
    THEN [exists |-> TRUE, fileID |-> store[key]]
    ELSE [exists |-> TRUE, fileID |-> <<>>]

\* fileID, exists := fileIDs[shortenedFileID]
StoreGet(store, key) ==
    IF key \in DOMAIN store
    THEN [exists |-> TRUE, fileID |-> store[key]]
    ELSE [exists |-> FALSE, fileID |-> <<>>]

(***************************************************************************)
(* Inputs                                                                  *)
(***************************************************************************)
Rep(c, n) == [i \in 1..n |-> c]

\* file handles the transport issues: two that agree on their first 32
\* characters, one that differs there, and one shorter than 32 characters
HandleA1 == Rep("A", ShortLen) \o <<"x">>
HandleA2 == Rep("A", ShortLen) \o <<"y">>
HandleB == Rep("B", ShortLen) \o Rep("x", ShortLen)
HandleShort == <<"s", "h", "o", "r", "t">>
FileHandles == {HandleA1, HandleA2, HandleB, HandleShort}

\* update.Message: whether it has a photo, whether it has a document, whether
\* the document has a MIME type, that type, and the file handle of the photo
\* or of the document
Message(photo, document, hasMime, mime, fileID) ==
    [photo |-> photo, document |-> document, hasMime |-> hasMime,
     mime |-> mime, fileID |-> fileID]

\* the inbound messages: photos, a document that is an image, a document that
\* is none, a document without MIME type, and a message with neither
Inbound ==
    {Message(TRUE, FALSE, FALSE, <<>>, h) : h \in {HandleA1, HandleA2, HandleShort}}
        \cup {Message(FALSE, TRUE, TRUE, <<"image/", "png">>, HandleB),
              Message(FALSE, TRUE, TRUE, <<"application/", "pdf">>, HandleA1),
              Message(FALSE, TRUE, FALSE, <<>>, HandleA1),
              Message(FALSE, FALSE, FALSE, <<>>, <<>>)}

\* strings.HasPrefix(*update.Message.Document.MimeType, "image/")
HasPrefix(mime, prefix) == Len(mime) >= 1 /\ mime[1] = prefix

\* the dereference of a MIME type that is nil panics
MimePanics(in) == ~in.photo /\ in.document /\ ~in.hasMime

\* the message takes one of the two branches that build the menu
IsImage(in) ==
    in.photo \/ (in.document /\ in.hasMime /\ HasPrefix(in.mime, "image/"))

\* the buttons of a menu that an earlier run of the bot left in the chat:
\* cancel, a command on a key the store of this run has not seen, a payload
\* of the earlier release (one letter and the whole handle, no "/"), and a
\* command token this release does not have
LegacyKeyboard ==
    {commandCancel,
     CallbackData(allCmds[DetectFaces], Shorten(HandleA1)),
     <<"F">> \o HandleA1,
     CallbackData(<<"detect_logos">>, Shorten(HandleA1))}

\* the error texts of the remote service and of the transport
RemoteErrors == {"kakao: 500"}

DecodeError == "image: unknown format"
EncodeError == "jpeg: encode failed"
SendError == "telegram: send failed"

\* what the download, the remote service, the codecs and the transport answer
\* to one processing unit; a step that is not reached answers nothing.  The
\* remote answer is an error, a result without entities, a result with
\* entities, or (tags only) labels with fewer localized labels than labels
Answers(read, remote, err, decode, encode, send) ==
    [read |-> read, remote |-> remote, err |-> err,
     decode |-> decode, encode |-> encode, send |-> send]

Outcomes ==
    {Answers(FALSE, "none", "", FALSE, FALSE, FALSE)}
        \cup {Answers(TRUE, "err", e, FALSE, FALSE, FALSE) : e \in RemoteErrors}
        \cup {Answers(TRUE, "empty", "", d, d, d) : d \in BOOLEAN}
        \cup {Answers(TRUE, "short", "", FALSE, FALSE, FALSE)}
        \cup {Answers(TRUE, "ok", "", FALSE, FALSE, FALSE),
              Answers(TRUE, "ok", "", TRUE, FALSE, FALSE),
              Answers(TRUE, "ok", "", TRUE, TRUE, FALSE),
              Answers(TRUE, "ok", "", TRUE, TRUE, TRUE)}

(***************************************************************************)
(* Rendering.  An image is a place in the heap of pixel buffers; a buffer  *)
(* is the sequence of what was put into it: the pixels it was made with    *)
(* and the marks drawn over them.                                          *)
(***************************************************************************)
\* var colors = []color.RGBA{...}
colors ==
    <<<<255, 255, 0, 255>>,     \* yellow
      <<0, 255, 255, 255>>,     \* cyan
      <<255, 0, 255, 255>>,     \* purple
      <<0, 255, 0, 255>>,       \* green
      <<0, 0, 255, 255>>,       \* blue
      <<255, 0, 0, 255>>>>      \* red

\* variant: the remainder is taken by one less than the length
colorForIndexShort(i) == colors[(i % (Len(colors) - 1)) + 1]

\* colors[i%length], for i >= 0
colorForIndex(i) == colors[(i % Len(colors)) + 1]

\* image.NewRGBA(...) and draw.Draw(newImg, newImg.Bounds(), img, image.ZP,
\* draw.Src): a new buffer with the pixels of img, at the next place
NewCopy(heap, img) == Append(heap, heap[img])

\* the drawing calls write into the buffer of dst
DrawOn(heap, dst, marks) == [heap EXCEPT ![dst] = @ \o marks]

\* what a rendering routine leaves: the heap and the image it returns
Rendered(heap, image) == [heap |-> heap, image |-> image]

RECURSIVE FaceMarks(_, _, _)
\* the body of the loop over detected.Result.Faces, faces i..n
FaceMarks(i, n, command) ==
    IF i > n THEN <<>>
    ELSE (IF command = DetectFaces
          THEN <<[kind |-> "rect", of |-> i, at |-> <<>>, color |-> colorForIndex(i - 1)],
                 [kind |-> "label", of |-> i, at |-> <<>>, color |-> colorForIndex(i - 1)],
                 [kind |-> "points", of |-> i, at |-> <<>>, color |-> colorForIndex(i - 1)]>>
          ELSE IF command = MaskFaces
          THEN <<[kind |-> "pixelate", of |-> i, at |-> <<>>, color |-> <<>>]>>
          ELSE <<>>)
         \o FaceMarks(i + 1, n, command)

\* variant: the graphic context and the filter are set on img itself
processImageForFacesInPlace(heap, img, n, command) ==
    Rendered(DrawOn(heap, img, FaceMarks(1, n, command)), img)

\* processImageForFaces for a result with n faces
processImageForFaces(heap, img, n, command) ==
    LET newImg == Len(heap) + 1
    IN  Rendered(DrawOn(NewCopy(heap, img), newImg, FaceMarks(1, n, command)), newImg)

RECURSIVE ProductMarks(_, _)
\* the body of the loop over detected.Result.Objects, objects i..n
ProductMarks(i, n) ==
    IF i > n THEN <<>>
    ELSE <<[kind |-> "rect", of |-> i, at |-> <<>>, color |-> colorForIndex(i - 1)],
           [kind |-> "label", of |-> i, at |-> <<>>, color |-> colorForIndex(i - 1)]>>
         \o ProductMarks(i + 1, n)

\* processImageForProducts for a result with n objects
processImageForProducts(heap, img, n) ==
    LET newImg == Len(heap) + 1
    IN  Rendered(DrawOn(NewCopy(heap, img), newImg, ProductMarks(1, n)), newImg)

\* the keypoints of a pose, in the order in which they are marked
KeyPoints ==
    <<"nose", "left eye", "right eye", "left ear", "right ear",
      "left shoulder", "right shoulder", "left elbow", "right elbow",
      "left wrist", "right wrist", "left hip", "right hip",
      "left knee", "right knee", "left ankle", "right ankle">>

\* the pairs of keypoints that are connected
PoseLines ==
    <<<<"left shoulder", "right shoulder">>, <<"left shoulder", "left elbow">>,
      <<"right shoulder", "right elbow">>, <<"left elbow", "left wrist">>,
      <<"right elbow", "right wrist">>, <<"left hip", "right hip">>,
      <<"left shoulder", "right hip">>, <<"right shoulder", "left hip">>,
      <<"left hip", "left knee">>, <<"right hip", "right knee">>,
      <<"left knee", "left ankle">>, <<"right knee", "right ankle">>>>

\* the marks of one pose: x, y, _ := pose.KeyPointFor(...) for every keypoint,
\* the third value being dropped, a point at every keypoint and a line for
\* every pair; the pose itself (which keypoints it has) is not looked at
PoseMarks(i, pose) ==
    [k \in 1..Len(KeyPoints) |->
        [kind |-> "point", of |-> i, at |-> <<KeyPoints[k]>>,
         color |-> colorForIndex(i - 1)]]
    \o [k \in 1..Len(PoseLines) |->
        [kind |-> "line", of |-> i, at |-> PoseLines[k],
         color |-> colorForIndex(i - 1)]]

RECURSIVE AllPoseMarks(_, _)
\* the loop over analyzed, poses i..Len(analyzed)
AllPoseMarks(i, analyzed) ==
    IF i > Len(analyzed) THEN <<>>
    ELSE PoseMarks(i, analyzed[i]) \o AllPoseMarks(i + 1, analyzed)

\* processImageForPoses; a pose is given as the set of keypoints it has
processImageForPoses(heap, img, analyzed) ==
    LET newImg == Len(heap) + 1
    IN  Rendered(DrawOn(NewCopy(heap, img), newImg, AllPoseMarks(1, analyzed)), newImg)

(***************************************************************************)
(* State                                                                   *)
(***************************************************************************)
VARIABLES
    fileIDs,    \* the store: shortened file id -> file id
    handlers,   \* one record per update handed to the update handler
    units,      \* one record per started processImage goroutine
    menus,      \* the bot's messages in the chat that carry buttons
    crashed,    \* the process died of a panic or a fatal runtime error
    boot,       \* the startup of the process: init() and the head of main()
    render      \* the last call of a rendering routine or of colorForIndex

vars == <<fileIDs, handlers, units, menus, crashed, boot, render>>

Handler(kind, in, data, menu, text, pc) ==
    [kind |-> kind, pc |-> pc,
     hasImage |-> IsImage(in),
     in |-> in,             \* the message received
     fileID |-> in.fileID,  \* the handle received, or the one looked up
     data |-> data, menu |-> menu, text |-> text,
     message |-> <<>>,      \* the text the handler decided to show
     key |-> <<>>,          \* the key the handler wrote or looked up
     raced |-> FALSE,       \* its map access overlapped a conflicting one
     looked |-> FALSE,      \* it looked the key up in the store
     miss |-> FALSE,        \* the key was not in the store at the lookup
     getFile |-> 0,         \* b.GetFile calls
     unit |-> 0,            \* the processing unit it started, 0 for none
     sent |-> "none",       \* b.SendMessage of processUpdate
     answered |-> "none",   \* b.AnswerCallbackQuery
     edited |-> "none",     \* b.EditMessageText
     shown |-> <<>>,        \* the text its edit put on the menu message
     result |-> FALSE]

Unit(by, menu, command) ==
    [by |-> by, messageIDToDelete |-> menu, command |-> command,
     pc |-> "run",
     bytes |-> FALSE,       \* readBytes succeeded
     remote |-> "none",     \* what the remote analysis call answered
     err |-> "",            \* the remote error text
     calls |-> <<>>,        \* remote analysis calls issued
     sent |-> <<>>,         \* SendPhoto and SendMessage calls
     deleted |-> <<>>,      \* DeleteMessage calls
     errorMessage |-> <<>>]

Menu(text, keyboard) == [text |-> text, keyboard |-> keyboard, exists |-> TRUE]

NoImage == Message(FALSE, FALSE, FALSE, <<>>, <<>>)

\* no rendering routine was called yet
NoRender ==
    [routine |-> "none", command |-> None, in |-> <<>>, img |-> 0,
     before |-> <<>>, heap |-> <<>>, image |-> 0, color |-> <<>>]

\* the steps of init() and main() before StartMonitoringUpdates, in order
StartupSteps ==
    <<"ReadFile config", "Unmarshal config", "ReadFile font", "Parse font",
      "GetMe", "DeleteWebhook">>

Init ==
    /\ fileIDs = <<>>
    /\ handlers = <<>>
    /\ units = <<>>
    /\ menus = <<Menu(messageActionImage, LegacyKeyboard)>>
    /\ crashed = FALSE
    /\ boot = [pc |-> "starting", done |-> <<>>, failed |-> ""]
    /\ render = NoRender

Handlers == 1..Len(handlers)
Received(kind) == Cardinality({i \in Handlers : handlers[i].kind = kind})
Units == 1..Len(units)
Menus == 1..Len(menus)

InAccess(h) == h.pc \in {"putting", "getting"}
Writing(h) == h.pc = "putting"

\* the handlers whose map access a new access conflicts with
Conflicts(write) ==
    {j \in Handlers : IF write THEN InAccess(handlers[j]) ELSE Writing(handlers[j])}

MarkRaced(hs, js) ==
    [j \in DOMAIN hs |-> IF j \in js THEN [hs[j] EXCEPT !.raced = TRUE] ELSE hs[j]]

(***************************************************************************)
(* init and main                                                           *)
(***************************************************************************)
\* variant: the result of DeleteWebhook is not looked at
StartupIgnoringWebhook(ok) ==
    /\ boot.pc = "starting"
    /\ LET step == StartupSteps[Len(boot.done) + 1]
       IN  IF ok
           THEN boot' = [boot EXCEPT
                    !.done = Append(@, step),
                    !.pc = IF Len(boot.done) + 1 = Len(StartupSteps)
                           THEN "monitoring" ELSE "starting"]
           ELSE IF step = "DeleteWebhook"
           THEN boot' = [boot EXCEPT !.pc = "monitoring", !.failed = step]
           ELSE boot' = [boot EXCEPT !.pc = "aborted", !.failed = step]
    /\ UNCHANGED <<fileIDs, handlers, units, menus, crashed, render>>

\* one step of the startup: it succeeds and the next one follows, the last
\* one being followed by StartMonitoringUpdates, or it fails and the process
\* panics
Startup(ok) ==
    /\ boot.pc = "starting"
    /\ LET step == StartupSteps[Len(boot.done) + 1]
       IN  IF ok
           THEN boot' = [boot EXCEPT
                    !.done = Append(@, step),
                    !.pc = IF Len(boot.done) + 1 = Len(StartupSteps)
                           THEN "monitoring" ELSE "starting"]
           ELSE boot' = [boot EXCEPT !.pc = "aborted", !.failed = step]
    /\ UNCHANGED <<fileIDs, handlers, units, menus, crashed, render>>

(***************************************************************************)
(* processUpdate                                                           *)
(***************************************************************************)
\* the update handler starts processUpdate for a message, at most n messages
\* in one run; the handler runs up to the write of genImageInlineKeyboards
\* into the store
Receive(n, in, ok) ==
    /\ ~crashed
    /\ UNCHANGED <<boot, render>>
    /\ boot.pc = "monitoring"
    /\ Received("message") < n
    /\ UNCHANGED <<fileIDs, units, menus>>
    /\ IF MimePanics(in)
       THEN /\ handlers' = Append(handlers,
                Handler("message", in, <<>>, 0, <<>>, "panic"))
            /\ crashed' = TRUE
       ELSE IF ~IsImage(in)
       THEN /\ handlers' = Append(handlers,
                [Handler("message", in, <<>>, 0, <<>>, "done") EXCEPT
                    !.message = messageHelp,
                    !.sent = IF ok THEN "ok" ELSE "failed",
                    !.result = ok])
            /\ UNCHANGED crashed
       ELSE IF ~CanShorten(in.fileID)
       THEN /\ handlers' = Append(handlers,
                Handler("message", in, <<>>, 0, <<>>, "panic"))
            /\ crashed' = TRUE
       ELSE /\ handlers' = Append(
                MarkRaced(handlers, Conflicts(TRUE)),
                [Handler("message", in, <<>>, 0, <<>>, "putting") EXCEPT
                    !.key = Shorten(in.fileID),
                    !.raced = Conflicts(TRUE) # {}])
            /\ UNCHANGED crashed

MessageUpdate(in, ok) == Receive(MaxMessages, in, ok)

\* the write into the store ends, the keyboard is built and the menu is sent
PutEnd(i, ok) ==
    /\ ~crashed
    /\ UNCHANGED <<boot, render>>
    /\ handlers[i].pc = "putting"
    /\ fileIDs' = StorePut(fileIDs, handlers[i].key, handlers[i].fileID)
    /\ handlers' = [handlers EXCEPT ![i] = [@ EXCEPT
            !.pc = "done",
            !.message = messageActionImage,
            !.menu = IF ok THEN Len(menus) + 1 ELSE 0,
            !.sent = IF ok THEN "ok" ELSE "failed",
            !.result = ok]]
    /\ menus' = IF ok
                THEN Append(menus, Menu(messageActionImage, Keyboard(handlers[i].fileID)))
                ELSE menus
    /\ UNCHANGED <<units, crashed>>

\* a map access that overlaps a conflicting one may end the process with
\* "fatal error: concurrent map read and map write" / "concurrent map writes"
Fatal(i) ==
    /\ ~crashed
    /\ UNCHANGED <<boot, render>>
    /\ InAccess(handlers[i])
    /\ handlers[i].raced
    /\ crashed' = TRUE
    /\ UNCHANGED <<fileIDs, handlers, units, menus>>

(***************************************************************************)
(* processCallbackQuery                                                    *)
(***************************************************************************)
\* the update handler starts processCallbackQuery for a tap on a button of
\* menu m; the handler runs up to the lookup in the store
Tap(n, m, data) ==
    /\ ~crashed
    /\ UNCHANGED <<boot, render>>
    /\ boot.pc = "monitoring"
    /\ Received("callback") < n
    /\ menus[m].exists
    /\ data \in menus[m].keyboard
    /\ UNCHANGED <<fileIDs, units, menus, crashed>>
    /\ LET h == Handler("callback", NoImage, data, m, menus[m].text, "answer")
           parsedCommand == Split(data, "/")
       IN  IF IsCancel(data)
           THEN handlers' = Append(handlers, [h EXCEPT !.message = messageCanceled])
           ELSE IF Len(parsedCommand) >= 2
           THEN handlers' = Append(
                    MarkRaced(handlers, Conflicts(FALSE)),
                    [h EXCEPT !.pc = "getting",
                              !.key = parsedCommand[2],
                              !.raced = Conflicts(FALSE) # {}])
           ELSE handlers' = Append(handlers, [h EXCEPT !.message = messageUnprocessable])

\* fmt.Sprintf("Processing '%s' on received image...", visionCommand)
messageProcessing(visionCommand) ==
    <<"Processing '", visionCommand, "' on received ", "image", "...">>

\* the lookup ends; on a hit the file is resolved and processImage is started.
\* lost: the lookup overlapped a write and missed an entry that is there
CallbackUpdate(m, data) == Tap(MaxCallbacks, m, data)

GetEnd(i, fileOk, lost) ==
    /\ ~crashed
    /\ UNCHANGED <<boot, render>>
    /\ handlers[i].pc = "getting"
    /\ lost => handlers[i].raced
    /\ LET h == handlers[i]
           got == IF lost THEN [exists |-> FALSE, fileID |-> <<>>]
                          ELSE StoreGet(fileIDs, h.key)
           command == Split(h.data, "/")[1]
           visionCommand == visionCommandForCommand(command)
           looked == [h EXCEPT !.pc = "answer", !.looked = TRUE,
                               !.miss = h.key \notin DOMAIN fileIDs,
                               !.fileID = got.fileID]
       IN  IF ~got.exists
           THEN /\ handlers' = [handlers EXCEPT ![i] =
                        [looked EXCEPT !.message = messageFailedToGetFile]]
                /\ UNCHANGED units
           ELSE IF ~fileOk
           THEN /\ handlers' = [handlers EXCEPT ![i] =
                        [looked EXCEPT !.getFile = @ + 1,
                                       !.message = messageFailedToGetFile]]
                /\ UNCHANGED units
           ELSE IF Contains(h.text, "image")
           THEN /\ units' = Append(units, Unit(i, h.menu, visionCommand))
                /\ handlers' = [handlers EXCEPT ![i] =
                        [looked EXCEPT !.getFile = @ + 1,
                                       !.unit = Len(units) + 1,
                                       !.message = messageProcessing(visionCommand)]]
           ELSE /\ handlers' = [handlers EXCEPT ![i] =
                        [looked EXCEPT !.getFile = @ + 1,
                                       !.message = messageUnprocessable]]
                /\ UNCHANGED units
    /\ UNCHANGED <<fileIDs, menus, crashed>>

\* the callback query is answered and, when that worked, the menu message is
\* edited to the decided text, which removes its buttons; the edit of a
\* deleted message fails
\* variant: processImage is called without "go", so the handler reaches its
\* answer only after the unit it started has ended
AnswerAfterUnit(i, answerOk, editOk) ==
    /\ ~crashed
    /\ UNCHANGED <<boot, render>>
    /\ handlers[i].pc = "answer"
    /\ handlers[i].unit # 0 => units[handlers[i].unit].pc = "done"
    /\ LET h == handlers[i]
           edit == answerOk /\ editOk /\ menus[h.menu].exists
       IN  /\ handlers' = [handlers EXCEPT ![i] = [@ EXCEPT
                    !.pc = "done",
                    !.answered = IF answerOk THEN "ok" ELSE "failed",
                    !.edited = IF ~answerOk THEN "none"
                               ELSE IF edit THEN "ok" ELSE "failed",
                    !.shown = IF edit THEN h.message ELSE <<>>,
                    !.result = edit]]
           /\ menus' = IF edit
                       THEN [menus EXCEPT ![h.menu] =
                                [@ EXCEPT !.text = h.message, !.keyboard = {}]]
                       ELSE menus
    /\ UNCHANGED <<fileIDs, units, crashed>>

\* variant: the menu message is edited whether or not the answer succeeded
AnswerEditAlways(i, answerOk, editOk) ==
    /\ ~crashed
    /\ UNCHANGED <<boot, render>>
    /\ handlers[i].pc = "answer"
    /\ LET h == handlers[i]
           edit == editOk /\ menus[h.menu].exists
       IN  /\ handlers' = [handlers EXCEPT ![i] = [@ EXCEPT
                    !.pc = "done",
                    !.answered = IF answerOk THEN "ok" ELSE "failed",
                    !.edited = IF edit THEN "ok" ELSE "failed",
                    !.shown = IF edit THEN h.message ELSE <<>>,
                    !.result = edit]]
           /\ menus' = IF edit
                       THEN [menus EXCEPT ![h.menu] =
                                [@ EXCEPT !.text = h.message, !.keyboard = {}]]
                       ELSE menus
    /\ UNCHANGED <<fileIDs, units, crashed>>

\* the answer to the callback query and the edit of the menu message
Answer(i, answerOk, editOk) ==
    /\ ~crashed
    /\ UNCHANGED <<boot, render>>
    /\ handlers[i].pc = "answer"
    /\ LET h == handlers[i]
           edit == answerOk /\ editOk /\ menus[h.menu].exists
       IN  /\ handlers' = [handlers EXCEPT ![i] = [@ EXCEPT
                    !.pc = "done",
                    !.answered = IF answerOk THEN "ok" ELSE "failed",
                    !.edited = IF ~answerOk THEN "none"
                               ELSE IF edit THEN "ok" ELSE "failed",
                    !.shown = IF edit THEN h.message ELSE <<>>,
                    !.result = edit]]
           /\ menus' = IF edit
                       THEN [menus EXCEPT ![h.menu] =
                                [@ EXCEPT !.text = h.message, !.keyboard = {}]]
                       ELSE menus
    /\ UNCHANGED <<fileIDs, units, crashed>>

(***************************************************************************)
(* processImage                                                            *)
(***************************************************************************)
Photo(caption, ok) ==
    [kind |-> "photo", text |-> caption, status |-> IF ok THEN "ok" ELSE "failed"]
Text(text, ok) ==
    [kind |-> "text", text |-> text, status |-> IF ok THEN "ok" ELSE "failed"]

\* what the switch of processImage leaves behind
Ran(calls, sent, errorMessage) ==
    [calls |-> calls, sent |-> sent, errorMessage |-> errorMessage]

\* variant: Mask Faces listed in the product case
RemoteCallForMaskAsProduct(command) ==
    CASE command = DetectFaces -> "DetectFaceFromBytes"
      [] command \in {DetectProducts, MaskFaces} -> "DetectProductFromBytes"
      [] command = DetectNSFW -> "DetectNSFWFromBytes"
      [] command = Tag -> "GenerateTagsFromBytes"
      [] command = AnalyzePoses -> "AnalyzePoseFromBytes"
      [] command = ExtractTexts -> "DetectTextFromBytes"
      [] OTHER -> ""

\* the remote analysis call of a command; "" for a command that has none
RemoteCallFor(command) ==
    CASE command \in {DetectFaces, MaskFaces} -> "DetectFaceFromBytes"
      [] command = DetectProducts -> "DetectProductFromBytes"
      [] command = DetectNSFW -> "DetectNSFWFromBytes"
      [] command = Tag -> "GenerateTagsFromBytes"
      [] command = AnalyzePoses -> "AnalyzePoseFromBytes"
      [] command = ExtractTexts -> "DetectTextFromBytes"
      [] OTHER -> ""

\* decode, draw, encode and send the photo
SendResultPhoto(call, caption, o) ==
    IF ~o.decode
    THEN Ran(<<call>>, <<>>, <<"Failed to decode image: ", DecodeError>>)
    ELSE IF ~o.encode
    THEN Ran(<<call>>, <<>>, <<"Failed to encode image: ", EncodeError>>)
    ELSE IF o.send
    THEN Ran(<<call>>, <<Photo(caption, TRUE)>>, <<>>)
    ELSE Ran(<<call>>, <<Photo(caption, FALSE)>>, <<"Failed to send image: ", SendError>>)

\* send the result text
SendResultText(call, message, failure, o) ==
    IF o.send
    THEN Ran(<<call>>, <<Text(message, TRUE)>>, <<>>)
    ELSE Ran(<<call>>, <<Text(message, FALSE)>>, <<failure, SendError>>)

\* variant: without the len(detected.Result.Faces) > 0 test
caseFacesNoEmptyCheck(command, o) ==
    LET call == RemoteCallFor(command)
    IN  IF o.remote = "err"
        THEN Ran(<<call>>, <<>>, <<"Failed to detect faces: ", o.err>>)
        ELSE SendResultPhoto(call, <<"Process result of '", command, "'">>, o)

caseFaces(command, o) ==
    LET call == RemoteCallFor(command)
    IN  IF o.remote = "err"
        THEN Ran(<<call>>, <<>>, <<"Failed to detect faces: ", o.err>>)
        ELSE IF o.remote = "empty"
        THEN Ran(<<call>>, <<>>, <<"No face detected on this image.">>)
        ELSE SendResultPhoto(call, <<"Process result of '", command, "'">>, o)

caseProducts(command, o) ==
    LET call == RemoteCallFor(command)
    IN  IF o.remote = "err"
        THEN Ran(<<call>>, <<>>, <<>>)
        ELSE IF o.remote = "empty"
        THEN Ran(<<call>>, <<>>, <<"No product detected on this image.">>)
        ELSE SendResultPhoto(call,
                <<"Process result of '", command, "':\n\n", "classes">>, o)

caseNSFW(command, o) ==
    LET call == RemoteCallFor(command)
    IN  IF o.remote = "err"
        THEN Ran(<<call>>, <<>>,
                 <<"Failed to detect NSFW factors from image: ", o.err>>)
        ELSE SendResultText(call,
                <<"Process result of '", command, "':\n\n", "factors">>,
                "Failed to send nsfw factors: ", o)

caseTag(command, o) ==
    LET call == RemoteCallFor(command)
    IN  IF o.remote = "err"
        THEN Ran(<<call>>, <<>>, <<"Failed to tag image: ", o.err>>)
        ELSE IF o.remote = "empty"
        THEN Ran(<<call>>, <<>>, <<"Could not tag given image.">>)
        ELSE IF o.remote = "short"
        THEN Ran(<<call>>, <<>>, <<>>)
        ELSE SendResultText(call,
                <<"Process result of '", command, "':\n\n", "tags">>,
                "Failed to send tags: ", o)

casePoses(command, o) ==
    LET call == RemoteCallFor(command)
    IN  IF o.remote = "err"
        THEN Ran(<<call>>, <<>>, <<"Failed to detect faces: ", o.err>>)
        ELSE SendResultPhoto(call, <<"Process result of '", command, "'">>, o)

\* variant: the extracted texts are drawn and sent as a photo
caseTextsAsPhoto(command, o) ==
    LET call == RemoteCallFor(command)
    IN  IF o.remote = "err"
        THEN Ran(<<call>>, <<>>, <<"Failed to detect texts: ", o.err>>)
        ELSE SendResultPhoto(call, <<"Process result of '", command, "'">>, o)

caseTexts(command, o) ==
    LET call == RemoteCallFor(command)
    IN  IF o.remote = "err"
        THEN Ran(<<call>>, <<>>, <<"Failed to detect texts: ", o.err>>)
        ELSE SendResultText(call,
                <<"Process result of '", command, "':\n\n", "words">>,
                "Failed to send extracted texts: ", o)

\* switch command { ... }
Switch(command, o) ==
    CASE command \in {DetectFaces, MaskFaces} -> caseFaces(command, o)
      [] command = DetectProducts -> caseProducts(command, o)
      [] command = DetectNSFW -> caseNSFW(command, o)
      [] command = Tag -> caseTag(command, o)
      [] command = AnalyzePoses -> casePoses(command, o)
      [] command = ExtractTexts -> caseTexts(command, o)
      [] OTHER -> Ran(<<>>, <<>>, <<"Command not supported: ", command>>)

\* generated.Result.LabelsKorean[i] panics when the localized labels are fewer
\* than the labels
TagPanics(command, o) == command = Tag /\ o.remote = "short"

\* processImage up to the end of its switch: the 'typing...' action,
\* readBytes(fileURL) and the case of the command
Run(u, o) ==
    /\ ~crashed
    /\ UNCHANGED <<boot, render>>
    /\ units[u].pc = "run"
    /\ o.remote = "short" => units[u].command = Tag
    /\ LET ran == IF o.read
                  THEN Switch(units[u].command, o)
                  ELSE Ran(<<>>, <<>>,
                           <<"Failed to read file from ", "url", ": ", "http error">>)
       IN  units' = [units EXCEPT ![u] = [@ EXCEPT
                !.pc = IF TagPanics(units[u].command, o) THEN "panic" ELSE "finish",
                !.bytes = o.read,
                !.remote = IF ran.calls = <<>> THEN "none" ELSE o.remote,
                !.err = IF ran.calls = <<>> THEN "" ELSE o.err,
                !.calls = @ \o ran.calls,
                !.sent = @ \o ran.sent,
                !.errorMessage = ran.errorMessage]]
    /\ crashed' = TagPanics(units[u].command, o)
    /\ UNCHANGED <<fileIDs, handlers, menus>>

\* variant: the menu message is deleted only when there was an error
FinishKeepMenuOnSuccess(u) ==
    /\ ~crashed
    /\ UNCHANGED <<boot, render>>
    /\ units[u].pc = "finish"
    /\ IF units[u].errorMessage = <<>>
       THEN /\ units' = [units EXCEPT ![u] = [@ EXCEPT !.pc = "done"]]
            /\ UNCHANGED menus
       ELSE /\ units' = [units EXCEPT ![u] = [@ EXCEPT
                    !.pc = "done",
                    !.deleted = Append(@, units[u].messageIDToDelete),
                    !.sent = Append(@, [kind |-> "text", text |-> units[u].errorMessage,
                                        status |-> "unchecked"])]]
            /\ menus' = [menus EXCEPT ![units[u].messageIDToDelete] =
                            [@ EXCEPT !.exists = FALSE]]
    /\ UNCHANGED <<fileIDs, handlers, crashed>>

\* the original message is deleted and the error, if any, is sent back; the
\* results of both calls are not looked at
Finish(u) ==
    /\ ~crashed
    /\ UNCHANGED <<boot, render>>
    /\ units[u].pc = "finish"
    /\ units' = [units EXCEPT ![u] = [@ EXCEPT
            !.pc = "done",
            !.deleted = Append(@, units[u].messageIDToDelete),
            !.sent = IF units[u].errorMessage # <<>>
                     THEN Append(@, [kind |-> "text", text |-> units[u].errorMessage,
                                     status |-> "unchecked"])
                     ELSE @]]
    /\ menus' = [menus EXCEPT ![units[u].messageIDToDelete] = [@ EXCEPT !.exists = FALSE]]
    /\ UNCHANGED <<fileIDs, handlers, crashed>>

Next ==
    \/ \E ok \in BOOLEAN : Startup(ok)
    \/ \E in \in Inbound, ok \in BOOLEAN : MessageUpdate(in, ok)
    \/ \E i \in Handlers, ok \in BOOLEAN : PutEnd(i, ok)
    \/ \E i \in Handlers : Fatal(i)
    \/ \E m \in Menus : \E data \in menus[m].keyboard : CallbackUpdate(m, data)
    \/ \E i \in Handlers, fileOk \in BOOLEAN, lost \in BOOLEAN : GetEnd(i, fileOk, lost)
    \/ \E i \in Handlers, answerOk \in BOOLEAN, editOk \in BOOLEAN : Answer(i, answerOk, editOk)
    \/ \E u \in Units, o \in Outcomes : Run(u, o)
    \/ \E u \in Units : Finish(u)

Spec == Init /\ [][Next]_vars

(***************************************************************************)
(* Runs with two taps: one photo message, taps on the buttons of two       *)
(* commands and on cancel, units that fail to download, get a remote error *)
(* or deliver their result                                                 *)
(***************************************************************************)
TapInbound == {Message(TRUE, FALSE, FALSE, <<>>, HandleA1)}

TapData(m) ==
    {data \in menus[m].keyboard :
        data = commandCancel
            \/ Split(data, "/")[1] \in {allCmds[Tag], allCmds[DetectFaces]}}

TapOutcomes ==
    {Answers(FALSE, "none", "", FALSE, FALSE, FALSE),
     Answers(TRUE, "ok", "", TRUE, TRUE, TRUE)}
        \cup {Answers(TRUE, "err", e, FALSE, FALSE, FALSE) : e \in RemoteErrors}

NextTaps ==
    \/ \E ok \in BOOLEAN : Startup(ok)
    \/ \E in \in TapInbound, ok \in BOOLEAN : Receive(MaxTapMessages, in, ok)
    \/ \E i \in Handlers, ok \in BOOLEAN : PutEnd(i, ok)
    \/ \E i \in Handlers : Fatal(i)
    \/ \E m \in Menus : \E data \in TapData(m) : Tap(MaxTaps, m, data)
    \/ \E i \in Handlers, fileOk \in BOOLEAN, lost \in BOOLEAN : GetEnd(i, fileOk, lost)
    \/ \E i \in Handlers, answerOk \in BOOLEAN, editOk \in BOOLEAN : Answer(i, answerOk, editOk)
    \/ \E u \in Units, o \in TapOutcomes : Run(u, o)
    \/ \E u \in Units : Finish(u)

SpecTaps == Init /\ [][NextTaps]_vars

(***************************************************************************)
(* Calls of the rendering routines and of colorForIndex                    *)
(***************************************************************************)
\* the pixels of a decoded image
Pixels(name) == [kind |-> "pixels", of |-> 0, at |-> <<name>>, color |-> <<>>]

Images == {<<Pixels("photo 1")>>, <<Pixels("photo 2")>>}

\* the poses of a result: each has all keypoints but some of these three
PoseInputs ==
    {{KeyPoints[k] : k \in 1..Len(KeyPoints)} \ missing :
        missing \in SUBSET {"nose", "left wrist", "right ankle"}}

Analyzed == UNION {[1..n -> PoseInputs] : n \in 1..MaxPoses}

\* the record of a call: the routine, its inputs, the heap before and after
\* and the image returned
Call(routine, command, in, before, r) ==
    [routine |-> routine, command |-> command, in |-> in, img |-> 1,
     before |-> before, heap |-> r.heap, image |-> r.image, color |-> <<>>]

RenderFaces(pixels, n, command) ==
    /\ render' = Call("processImageForFaces", command, n, <<pixels>>,
                       processImageForFaces(<<pixels>>, 1, n, command))
    /\ UNCHANGED <<fileIDs, handlers, units, menus, crashed, boot>>

RenderProducts(pixels, n) ==
    /\ render' = Call("processImageForProducts", DetectProducts, n, <<pixels>>,
                       processImageForProducts(<<pixels>>, 1, n))
    /\ UNCHANGED <<fileIDs, handlers, units, menus, crashed, boot>>

RenderPoses(pixels, analyzed) ==
    /\ render' = Call("processImageForPoses", AnalyzePoses, analyzed, <<pixels>>,
                       processImageForPoses(<<pixels>>, 1, analyzed))
    /\ UNCHANGED <<fileIDs, handlers, units, menus, crashed, boot>>

Colour(i) ==
    /\ render' = [NoRender EXCEPT !.routine = "colorForIndex", !.in = i,
                                  !.color = colorForIndex(i)]
    /\ UNCHANGED <<fileIDs, handlers, units, menus, crashed, boot>>

NextRender ==
    \/ \E pixels \in Images, n \in 1..MaxFaces, command \in {DetectFaces, MaskFaces} :
            RenderFaces(pixels, n, command)
    \/ \E pixels \in Images, n \in 1..MaxFaces : RenderProducts(pixels, n)
    \/ \E pixels \in Images, analyzed \in Analyzed : RenderPoses(pixels, analyzed)
    \/ \E i \in 0..MaxIndex : Colour(i)

SpecRender == Init /\ [][NextRender]_vars

(***************************************************************************)
(* Properties                                                              *)
(***************************************************************************)
Callbacks == {i \in Handlers : handlers[i].kind = "callback"}
Messages == {i \in Handlers : handlers[i].kind = "message"}
UnitsOf(i) == {u \in Units : units[u].by = i}

\* the sends of a unit that the transport did not report as failed
OutcomeSends(u) == SelectSeq(units[u].sent, LAMBDA m : m.status # "failed")

\* C1: every processing unit that has ended has sent exactly one outcome
\* message, the result or one failure text
C1_ExactlyOneOutcome ==
    \A u \in Units : units[u].pc = "done" => Len(OutcomeSends(u)) = 1

\* C2: a unit whose remote analysis call returned an error made that one call
\* and ends having sent one text message that contains the remote error text
C2_RemoteErrorReported ==
    \A u \in Units :
        (units[u].pc = "done" /\ units[u].remote = "err") =>
            /\ Len(units[u].calls) = 1
            /\ Len(units[u].sent) = 1
            /\ units[u].sent[1].kind = "text"
            /\ Contains(units[u].sent[1].text, units[u].err)

\* the analysis call that belongs to each command of the registry
C3_CallOf ==
    [c \in DOMAIN allCmds |->
        CASE c \in {DetectFaces, MaskFaces} -> "DetectFaceFromBytes"
          [] c = DetectProducts -> "DetectProductFromBytes"
          [] c = DetectNSFW -> "DetectNSFWFromBytes"
          [] c = Tag -> "GenerateTagsFromBytes"
          [] c = AnalyzePoses -> "AnalyzePoseFromBytes"
          [] c = ExtractTexts -> "DetectTextFromBytes"]

\* C3 as stated: every unit whose file bytes were obtained has issued exactly
\* one remote analysis call, the one of its command
C3_ExactlyOneCall ==
    \A u \in Units :
        (units[u].pc \in {"finish", "done"} /\ units[u].bytes) =>
            /\ Len(units[u].calls) = 1
            /\ units[u].command \in DOMAIN allCmds
            /\ units[u].calls[1] = C3_CallOf[units[u].command]

\* C3 as amended: a unit whose file bytes were obtained and whose command is
\* one of the seven commands of the registry issues exactly one remote
\* analysis call in its whole life, the one of its command; a unit whose
\* command is not in the registry, or whose bytes were not obtained, issues none
C3_OneCallOfTheCommand ==
    \A u \in Units :
        /\ units[u].pc = "run" => units[u].calls = <<>>
        /\ (units[u].pc \in {"finish", "done"} /\ units[u].bytes
                /\ units[u].command \in DOMAIN allCmds) =>
              units[u].calls = <<C3_CallOf[units[u].command]>>
        /\ (units[u].command \notin DOMAIN allCmds \/ ~units[u].bytes) =>
              units[u].calls = <<>>

C3_Witness ==
    \E u \in Units :
        /\ units[u].pc = "done" /\ units[u].bytes
        /\ units[u].command = MaskFaces
        /\ units[u].calls = <<"DetectFaceFromBytes">>

\* C4: a command callback whose key is not in the store decides on the
\* "Failed to get file" text, shows no other text, starts no unit and makes no
\* file-resolution call (and, having no unit, no remote analysis call)
C4_MissingKeyFails ==
    \A i \in Callbacks :
        (handlers[i].looked /\ handlers[i].miss) =>
            /\ handlers[i].message = <<"Failed to get file from the server.">>
            /\ handlers[i].getFile = 0
            /\ handlers[i].unit = 0
            /\ UnitsOf(i) = {}
            /\ handlers[i].shown \in {<<>>, handlers[i].message}
            /\ handlers[i].edited = "ok" => handlers[i].shown = handlers[i].message

C4_Witness ==
    \E i \in Callbacks :
        /\ handlers[i].looked /\ handlers[i].miss
        /\ handlers[i].pc = "done"
        /\ handlers[i].shown = <<"Failed to get file from the server.">>

\* C5: a callback whose payload is the cancel sentinel decides on the exact
\* text "Canceled.", shows no other text, looks nothing up in the store,
\* resolves no file and starts no unit
C5_CancelEndsRequest ==
    \A i \in Callbacks :
        handlers[i].data = <<"cancel">> =>
            /\ handlers[i].pc \in {"answer", "done"}
            /\ handlers[i].message = <<"Canceled.">>
            /\ ~handlers[i].looked
            /\ handlers[i].getFile = 0
            /\ handlers[i].unit = 0
            /\ UnitsOf(i) = {}
            /\ handlers[i].shown \in {<<>>, <<"Canceled.">>}
            /\ handlers[i].edited = "ok" => handlers[i].shown = <<"Canceled.">>

C5_Witness ==
    \E i \in Callbacks :
        /\ handlers[i].data = <<"cancel">>
        /\ handlers[i].pc = "done"
        /\ handlers[i].shown = <<"Canceled.">>

\* the nothing-detected text of the commands that have one
C6_NothingDetected ==
    [c \in {DetectFaces, MaskFaces, DetectProducts, Tag} |->
        CASE c \in {DetectFaces, MaskFaces} -> <<"No face detected on this image.">>
          [] c = DetectProducts -> <<"No product detected on this image.">>
          [] c = Tag -> <<"Could not tag given image.">>]

\* C6: a unit whose remote call found no face, no product or no tag sends
\* exactly one text, the nothing-detected text of its command, and no photo;
\* that text is the failure text of no remote-call error
C6_EmptyResultReported ==
    \A u \in Units :
        (units[u].remote = "empty" /\ units[u].command \in DOMAIN C6_NothingDetected) =>
            LET text == C6_NothingDetected[units[u].command]
            IN  /\ units[u].errorMessage = text
                /\ units[u].pc = "finish" => units[u].sent = <<>>
                /\ units[u].pc = "done" =>
                      units[u].sent = <<[kind |-> "text", text |-> text,
                                         status |-> "unchecked"]>>
                /\ \A c \in DOMAIN allCmds, o \in Outcomes :
                      o.remote = "err" => Switch(c, o).errorMessage # text

C6_Witness ==
    \E u \in Units :
        /\ units[u].pc = "done" /\ units[u].remote = "empty"
        /\ units[u].command = DetectFaces
        /\ Len(units[u].sent) = 1

\* a unit delivered its result: a send of the result that the transport accepted
Delivered(u) == \E k \in 1..Len(units[u].sent) : units[u].sent[k].status = "ok"

\* C7: a unit deletes nothing before its switch has ended, and a unit that
\* delivered its result, as a text or as a photo, has at its end deleted the
\* menu message of its callback, exactly once
C7_MenuDeletedAfterDelivery ==
    \A u \in Units :
        /\ units[u].pc \in {"run", "finish"} => units[u].deleted = <<>>
        /\ (units[u].pc = "done" /\ Delivered(u)) =>
              /\ units[u].deleted = <<handlers[units[u].by].menu>>
              /\ ~menus[handlers[units[u].by].menu].exists

C7_Witness ==
    \E u \in Units :
        /\ units[u].pc = "done" /\ Delivered(u)
        /\ units[u].sent[1].kind = "photo"
        /\ units[u].deleted = <<units[u].messageIDToDelete>>

\* C8: two image messages with different file handles get different keys, and
\* a callback on the menu of one message resolves to the handle of that message
C8_IndependentKeys ==
    /\ \A i, j \in Messages :
          (handlers[i].key # <<>> /\ handlers[j].key # <<>>
              /\ handlers[i].fileID # handlers[j].fileID) =>
                handlers[i].key # handlers[j].key
    /\ \A c \in Callbacks, i \in Messages :
          (handlers[c].looked /\ handlers[c].fileID # <<>>
              /\ handlers[i].menu # 0 /\ handlers[c].menu = handlers[i].menu) =>
                handlers[c].fileID = handlers[i].fileID

\* C9: for every handle an image message has put, a get with the key that put
\* returned gives that handle back
C9_GetPutRoundTrip ==
    \A i \in Messages :
        (handlers[i].pc = "done" /\ handlers[i].key # <<>>) =>
            StoreGet(fileIDs, handlers[i].key) =
                [exists |-> TRUE, fileID |-> handlers[i].fileID]

\* C10: no two handler invocations are inside an access of the map at the same
\* time when one of the two is a write
C10_NoUnsynchronisedAccess ==
    \A i, j \in Handlers :
        (i # j /\ InAccess(handlers[i]) /\ InAccess(handlers[j])) =>
            ~(Writing(handlers[i]) \/ Writing(handlers[j]))

\* C13: updates are handled only while the receive loop runs; the receive loop
\* runs only after all six startup steps succeeded, in their order; a startup
\* step that failed aborted the process, and then nothing was ever handled
C13_MonitoringOnlyAfterStartup ==
    /\ (handlers # <<>> \/ units # <<>>) => boot.pc = "monitoring"
    /\ boot.pc = "monitoring" => (boot.done = StartupSteps /\ boot.failed = "")
    /\ boot.failed # "" =>
          (boot.pc = "aborted" /\ handlers = <<>> /\ units = <<>>)

\* the last startup step failed after the five before it succeeded
C13_Witness ==
    /\ boot.pc = "aborted"
    /\ boot.failed = "DeleteWebhook"
    /\ Len(boot.done) = Len(StartupSteps) - 1
    /\ handlers = <<>>

\* C18: the receive loop starts only after a startup step that checks that no
\* two commands of the registry share a token
C18_UniquenessCheckedAtStartup ==
    boot.pc = "monitoring" =>
        \E k \in 1..Len(boot.done) : boot.done[k] = "check token uniqueness"

\* C12: no handler of an inbound message or of a callback, and no processing
\* unit, ends in a panic (a panic in any goroutine ends the process)
C12_FailuresStayConfined ==
    /\ \A i \in Handlers : handlers[i].pc # "panic"
    /\ \A u \in Units : units[u].pc # "panic"

\* C14: a callback whose file could not be resolved to a URL ends with the
\* message "Failed to get file from the server." and starts no unit; a unit
\* whose download failed reports that same message and makes no remote call
C14_FileFailureMessage ==
    /\ \A c \in Callbacks :
          (handlers[c].pc \in {"answer", "done"} /\ handlers[c].looked
              /\ handlers[c].fileID # <<>> /\ handlers[c].unit = 0
              /\ Contains(handlers[c].text, "image")) =>
                (handlers[c].message = messageFailedToGetFile /\ UnitsOf(c) = {})
    /\ \A u \in Units :
          (units[u].pc \in {"finish", "done"} /\ ~units[u].bytes) =>
                (units[u].calls = <<>>
                    /\ units[u].errorMessage = messageFailedToGetFile)

\* the photos a unit sent
PhotosOf(u) == SelectSeq(units[u].sent, LAMBDA m : m.kind = "photo")

\* C15: a unit sends at most one photo, and only for face-detect, face-mask,
\* product-detect and pose-analyze; everything a unit for nsfw-detect, tag or
\* text-extract sends is plain text; every failure reply is plain text
C15_PhotoOnlyForDrawnResults ==
    \A u \in Units :
        /\ Len(PhotosOf(u)) <= 1
        /\ PhotosOf(u) # <<>> =>
              units[u].command \in {DetectFaces, MaskFaces, DetectProducts, AnalyzePoses}
        /\ units[u].command \in {DetectNSFW, Tag, ExtractTexts} =>
              \A k \in 1..Len(units[u].sent) : units[u].sent[k].kind = "text"
        /\ \A k \in 1..Len(units[u].sent) :
              (units[u].sent[k].status = "unchecked"
                    \/ units[u].sent[k].text = units[u].errorMessage) =>
                  units[u].sent[k].kind = "text"

\* a pose unit ended after sending its one photo
C15_Witness ==
    \E u \in Units :
        /\ units[u].pc = "done" /\ units[u].command = AnalyzePoses
        /\ Len(PhotosOf(u)) = 1 /\ PhotosOf(u)[1].status = "ok"
        /\ Len(units[u].sent) = 1

\* C16: every message handler that ended made exactly one send to the chat:
\* the selection menu when the message is an image, the help text otherwise;
\* a message that is not an image wrote no key into the store
C16_ExactlyOneReply ==
    \A i \in Messages :
        handlers[i].pc \in {"done", "panic"} =>
            /\ handlers[i].sent # "none"
            /\ handlers[i].message =
                  IF IsImage(handlers[i].in) THEN messageActionImage ELSE messageHelp
            /\ ~IsImage(handlers[i].in) => handlers[i].key = <<>>

\* C17: decoding the token of a command gives the command back, two different
\* commands have different tokens, and a unit started from a payload with the
\* token of a command runs that command
C17_TokensRoundTrip ==
    /\ \A c \in DOMAIN allCmds : visionCommandForCommand(allCmds[c]) = c
    /\ \A c, d \in DOMAIN allCmds : c # d => allCmds[c] # allCmds[d]
    /\ \A u \in Units : \A c \in DOMAIN allCmds :
          Split(handlers[units[u].by].data, "/")[1] = allCmds[c] =>
              units[u].command = c

\* a unit was started from a payload with the token "tag" and runs Tag
C17_Witness ==
    \E u \in Units :
        /\ Split(handlers[units[u].by].data, "/")[1] = <<"tag">>
        /\ units[u].command = Tag

\* the message handlers whose menu was sent
MenuSenders == {i \in Messages : handlers[i].menu # 0}

\* C19 as stated: every command payload of a generated menu is the token of a
\* command followed by the key, with nothing between them
C19_PayloadWithoutDelimiter ==
    \A i \in MenuSenders : \A data \in menus[handlers[i].menu].keyboard :
        \/ data = commandCancel
        \/ \E c \in DOMAIN allCmds : data = allCmds[c] \o handlers[i].key

\* C19: every command payload of a generated menu is the token of a command,
\* "/" and the key, and splits at "/" into exactly that token and that key; a
\* callback with such a payload looks up that key and, when it starts a unit,
\* starts it for the command of that token
C19_PayloadSplitsBack ==
    /\ \A i \in MenuSenders : \A data \in menus[handlers[i].menu].keyboard :
          \/ data = commandCancel
          \/ \E c \in DOMAIN allCmds :
                /\ data = allCmds[c] \o <<"/">> \o handlers[i].key
                /\ Split(data, "/") = <<allCmds[c], handlers[i].key>>
    /\ \A h \in Callbacks, i \in MenuSenders :
          (handlers[h].menu = handlers[i].menu /\ handlers[h].data # commandCancel) =>
              /\ handlers[h].key = handlers[i].key
              /\ handlers[h].unit # 0 =>
                    allCmds[units[handlers[h].unit].command] =
                        Split(handlers[h].data, "/")[1]

\* a callback on a generated menu started a unit for Detect Products
C19_Witness ==
    \E h \in Callbacks, i \in MenuSenders :
        /\ handlers[h].menu = handlers[i].menu
        /\ handlers[h].data = <<"detect_products", "/">> \o handlers[i].key
        /\ handlers[h].unit # 0
        /\ units[handlers[h].unit].command = DetectProducts

\* the lengths in bytes of the payloads of all commands for all handles that
\* can be shortened
PayloadLengths ==
    {ByteLen(CallbackData(allCmds[c], Shorten(f))) :
        c \in DOMAIN allCmds, f \in {g \in FileHandles : CanShorten(g)}}

\* C20: every payload of a generated menu, and the payload of every command
\* for every handle that can be shortened, has at most 64 bytes, the ceiling
\* of callback_data in the Telegram Bot API
C20_PayloadFitsCeiling ==
    /\ \A i \in MenuSenders : \A data \in menus[handlers[i].menu].keyboard :
          ByteLen(data) <= 64
    /\ \A n \in PayloadLengths : n <= 64

\* the menu of a handle of 64 characters carries the longest payload, that of
\* Detect Products
C20_Witness ==
    \E i \in MenuSenders :
        /\ Len(handlers[i].fileID) = 2 * ShortLen
        /\ \E data \in menus[handlers[i].menu].keyboard :
              /\ data[1] = "detect_products"
              /\ ByteLen(data) = Len("detect_products") + 1 + ShortLen

\* C11: while a unit sits in its download or remote call, every handler can
\* take its next step (the handler that started the unit can answer), every
\* other unit can run and finish, and the next message and the next tap on a
\* menu that is still in the chat are received
C11_UnitNeverBlocks ==
    \A u \in Units :
        (units[u].pc = "run" /\ ~crashed) =>
            /\ \A i \in Handlers :
                  /\ handlers[i].pc = "answer" => ENABLED Answer(i, TRUE, TRUE)
                  /\ handlers[i].pc = "getting" => ENABLED GetEnd(i, TRUE, FALSE)
                  /\ handlers[i].pc = "putting" => ENABLED PutEnd(i, TRUE)
            /\ \A v \in Units \ {u} :
                  /\ units[v].pc = "run" =>
                        \A o \in TapOutcomes : ENABLED Run(v, o)
                  /\ units[v].pc = "finish" => ENABLED Finish(v)
            /\ Received("message") < MaxTapMessages =>
                  \A in \in TapInbound : ENABLED Receive(MaxTapMessages, in, TRUE)
            /\ Received("callback") < MaxTaps =>
                  \A m \in Menus : \A data \in TapData(m) :
                      menus[m].exists => ENABLED Tap(MaxTaps, m, data)

\* the first unit still sits in its download or remote call, its handler has
\* returned, and a unit started by a later tap has ended
C11_Witness ==
    \E u, v \in Units :
        /\ u < v
        /\ units[u].pc = "run" /\ handlers[units[u].by].pc = "done"
        /\ units[v].pc = "done" /\ handlers[units[v].by].pc = "done"
        /\ units[u].by < units[v].by

\* C21: no step removes a key from the store, and a step that changes the
\* store is the end of the write of a message handler
C21_StoreOnlyGrows ==
    [][/\ \A k \in DOMAIN fileIDs : k \in DOMAIN fileIDs'
       /\ fileIDs' # fileIDs =>
             \E i \in Messages :
                 handlers[i].pc = "putting" /\ handlers'[i].pc = "done"]_vars

\* two image messages have put two keys, and a callback and its unit have
\* run to their ends
C21_Witness ==
    /\ Cardinality(DOMAIN fileIDs) = 2
    /\ \E c \in Callbacks : handlers[c].pc = "done"
    /\ \E u \in Units : units[u].pc = "done"

\* the marks a rendering call drew into the image it returned
DrawnMarks ==
    SelectSeq(render.heap[render.image], LAMBDA m : m.kind # "pixels")

\* C22: in the image processImageForPoses returned, every point is at a
\* keypoint its pose has, and every line connects two keypoints its pose has
C22_OnlyPresentKeypointsDrawn ==
    render.routine = "processImageForPoses" =>
        \A k \in 1..Len(DrawnMarks) :
            \A j \in 1..Len(DrawnMarks[k].at) :
                DrawnMarks[k].at[j] \in render.in[DrawnMarks[k].of]

\* C23: after a call of a rendering routine the buffer of its input image is
\* as it was before the call, the image returned is a buffer that did not
\* exist before, and that buffer holds the pixels of the input and every mark
C23_InputImageUnchanged ==
    render.routine \in
            {"processImageForFaces", "processImageForProducts", "processImageForPoses"} =>
        /\ render.heap[render.img] = render.before[render.img]
        /\ render.image \notin DOMAIN render.before
        /\ render.image # render.img
        /\ render.heap[render.image] = render.before[render.img] \o DrawnMarks

\* two faces were pixelated in the copy and the input is as it was
C23_Witness ==
    /\ render.routine = "processImageForFaces" /\ render.command = MaskFaces
    /\ render.in = 2
    /\ Len(DrawnMarks) = 2 /\ DrawnMarks[2].kind = "pixelate"
    /\ render.heap[render.img] = <<Pixels("photo 1")>>

\* C24: the colour of index i is the entry i mod 6 of the palette of six
\* colours, and it is the colour of index i + 6
C24_ColoursCycle ==
    /\ Len(colors) = 6
    /\ render.routine = "colorForIndex" =>
          /\ render.color = colors[(render.in % 6) + 1]
          /\ render.color = colorForIndex(render.in)
          /\ render.color = colorForIndex(render.in + 6)

\* index 7 was asked for and gave cyan, the second colour
C24_Witness ==
    /\ render.routine = "colorForIndex"
    /\ render.in = 7
    /\ render.color = <<0, 255, 255, 255>>

\* the units started by callbacks on menu m
UnitsOn(m) == {u \in Units : units[u].messageIDToDelete = m}

\* C25: for every menu message at most one unit is started, and the units
\* started for it make at most one remote call together
C25_OneUnitPerMenu ==
    \A m \in Menus :
        /\ Cardinality(UnitsOn(m)) <= 1
        /\ \A u, v \in UnitsOn(m) :
              (units[u].calls # <<>> /\ units[v].calls # <<>>) => u = v

\* C26: when a unit has deleted the menu message, the handler that started
\* the unit has its answer and its edit of that message behind it
C26_EditBeforeDelete ==
    \A u \in Units :
        units[u].deleted # <<>> => handlers[units[u].by].pc = "done"

\* C27: a callback handler has answered (once, at its end) exactly when it is
\* done; by then its outcome text is decided and the unit it started, if any,
\* exists; the edit was called exactly when the answer succeeded, it put the
\* outcome text on the menu when it succeeded, and the handler returns true
\* exactly when both calls succeeded
C27_AnsweredOnce ==
    \A c \in Callbacks :
        /\ handlers[c].answered # "none" <=> handlers[c].pc = "done"
        /\ handlers[c].pc = "done" =>
              /\ handlers[c].message # <<>>
              /\ UnitsOf(c) = (IF handlers[c].unit = 0 THEN {} ELSE {handlers[c].unit})
        /\ handlers[c].edited # "none" <=> handlers[c].answered = "ok"
        /\ handlers[c].edited = "ok" => handlers[c].shown = handlers[c].message
        /\ handlers[c].result <=>
              (handlers[c].answered = "ok" /\ handlers[c].edited = "ok")

\* a command callback started its unit, its answer failed, and the menu
\* message was not edited
C27_Witness ==
    \E c \in Callbacks :
        /\ handlers[c].pc = "done" /\ handlers[c].unit # 0
        /\ handlers[c].answered = "failed" /\ handlers[c].edited = "none"
        /\ ~handlers[c].result

\* the callbacks whose payload has a key and a token that is no token of the
\* registry
UnknownToken ==
    {c \in Callbacks :
        /\ Len(Split(handlers[c].data, "/")) >= 2
        /\ \A k \in DOMAIN allCmds : allCmds[k] # Split(handlers[c].data, "/")[1]}

\* a callback with an unknown token whose key resolved, whose file was found
\* and whose menu text names an image has started a unit for the empty command
UnknownTokenStartsUnit ==
    \A c \in UnknownToken :
        (handlers[c].pc \in {"answer", "done"} /\ handlers[c].fileID # <<>>
            /\ handlers[c].message \notin {messageFailedToGetFile, messageUnprocessable}) =>
              (handlers[c].unit # 0 /\ units[handlers[c].unit].command = None)

\* unit u has ended with exactly one send, the text "Command not supported: "
EndsNotSupported(u) ==
    /\ units[u].errorMessage = <<"Command not supported: ", None>>
    /\ units[u].pc = "done" =>
          /\ Len(units[u].sent) = 1
          /\ units[u].sent[1].kind = "text"
          /\ units[u].sent[1].text[1] = "Command not supported: "

\* C28 as stated: a callback with an unknown token starts a unit for the empty
\* command, and every such unit makes no remote call and ends with one text
\* that begins "Command not supported: "
C28_AlwaysNotSupported ==
    /\ UnknownTokenStartsUnit
    /\ \A u \in Units :
          units[u].by \in UnknownToken =>
              /\ units[u].command = None
              /\ units[u].calls = <<>>
              /\ units[u].pc \in {"finish", "done"} => EndsNotSupported(u)

\* C28: a callback with an unknown token starts a unit for the empty command;
\* the unit makes no remote call and sends no result; when its download
\* succeeded it ends with one text that begins "Command not supported: ", and
\* when its download failed with one text that begins "Failed to read file"
C28_UnknownTokenNotSupported ==
    /\ UnknownTokenStartsUnit
    /\ \A u \in Units :
          units[u].by \in UnknownToken =>
              /\ units[u].command = None
              /\ units[u].calls = <<>>
              /\ (units[u].pc \in {"finish", "done"} /\ units[u].bytes) =>
                    EndsNotSupported(u)
              /\ (units[u].pc \in {"finish", "done"} /\ ~units[u].bytes) =>
                    /\ units[u].errorMessage[1] = "Failed to read file from "
                    /\ units[u].pc = "done" =>
                          (Len(units[u].sent) = 1 /\ units[u].sent[1].kind = "text")

\* the unit of a callback with the token "detect_logos" has ended
C28_Witness ==
    \E u \in Units :
        /\ units[u].by \in UnknownToken
        /\ Split(handlers[units[u].by].data, "/")[1] = <<"detect_logos">>
        /\ units[u].pc = "done" /\ units[u].command = None /\ units[u].bytes
        /\ Len(units[u].sent) = 1

====
